---- MODULE Spec2Model ----
(***************************************************************************)
(* The CDAP REST client of src/cdap.py: class Cdap (one instance, its      *)
(* fields, and every public method as one action) and the enumeration      *)
(* Workflows with its two static helpers.                                  *)
(*                                                                         *)
(* The server is the environment: every response (or transport failure)    *)
(* is chosen nondeterministically when a request is dispatched.            *)
(*                                                                         *)
(* A URL string "scheme://node_ip:port/seg1/seg2" is the record            *)
(* [scheme, port, path], path the sequence of its segments; an empty       *)
(* segment is an empty string in the sequence.  A program type is the      *)
(* sequence of its characters, so that str.upper() is computed.            *)
(***************************************************************************)
EXTENDS Integers, Sequences, FiniteSets, TLC

\* ------------------------------------------------------------------ bounds
MaxPrograms == 3
MaxExecs == 3
MaxPipelines == 2
MaxPlugins == 2

\* ------------------------------------------------------- values and inputs
\* Python None where a record is expected / where a string is expected.
NoneV == [none |-> TRUE]
NoneStr == "None"

HTTP_OK == 200
StatusCodes == {200, 404, 500}

Tokens == {"tok1", "tok2"}
PipelineNames == {"p1", "p2"}
ArtifactNames == {NoneStr, "", "cdap-data-pipeline"}
ArtifactVersions == {NoneStr, "6.1.0"}
Overwrites == {"True", "False", "None"}
KerberizedValues == {"True", "False", "None"}
InputJsons == {[artifact |-> "cdap-data-pipeline"]}
Queries == {"select * from dataset_x"}
QueryHandles == {"h1"}
StartTimes == {10, 30}
\* a JSON scalar is [s |-> string] or [n |-> number]
StatusValues == {[s |-> "COMPLETED"], [s |-> "RUNNING"], [n |-> 0]}
PluginTypes == {"streamingsource", "batchsource"}
ProgNames == <<"prog1", "prog2", "prog3", "prog4", "prog5", "prog6">>
RunIds == <<"a", "b", "c", "d", "e", "f">>
\* execution ids a caller may pass directly ("" is the never-run sentinel)
ExecutionIds == {"", "a"}

TypeNames ==
  { <<"W","o","r","k","f","l","o","w">>,
    <<"W","O","R","K","F","L","O","W">>,
    <<"s","p","a","r","k">>,
    <<"S","p","a","r","k">>,
    <<"M","a","p","R","e","d","u","c","e">> }

SeqsUpTo(S, n) == UNION { [1..k -> S] : k \in 0..n }

\* program lists a pipeline-info response may carry ("programs")
ProgramLists ==
  { [i \in 1..Len(ts) |-> [type |-> ts[i], name |-> ProgNames[i], app |-> "app"]]
      : ts \in SeqsUpTo(TypeNames, MaxPrograms) }

\* execution lists a runs response may carry
ExecLists ==
  { [i \in 1..Len(ss) |-> [starting |-> ss[i], runid |-> [s |-> RunIds[i]]]]
      : ss \in SeqsUpTo(StartTimes, MaxExecs) }

PipelineLists == SeqsUpTo(PipelineNames, MaxPipelines)

PluginLists ==
  { [i \in 1..Len(ts) |-> [type |-> ts[i]]] : ts \in SeqsUpTo(PluginTypes, MaxPlugins) }

\* ------------------------------------------------------ class Workflows
LowerLetters == <<"a","b","c","d","e","f","g","h","i","j","k","l","m",
                  "n","o","p","q","r","s","t","u","v","w","x","y","z">>
UpperLetters == <<"A","B","C","D","E","F","G","H","I","J","K","L","M",
                  "N","O","P","Q","R","S","T","U","V","W","X","Y","Z">>

UpperChar(c) ==
  IF \E i \in 1..Len(LowerLetters) : LowerLetters[i] = c
    THEN UpperLetters[CHOOSE i \in 1..Len(LowerLetters) : LowerLetters[i] = c]
    ELSE c

\* str.upper()
upper(s) == [i \in 1..Len(s) |-> UpperChar(s[i])]

\* member names of the enumeration
WORKFLOW == <<"W","O","R","K","F","L","O","W">>
SPARK == <<"S","P","A","R","K">>

\* Workflows[name].value; a lookup of an unknown name raises KeyError
Workflows == [n \in {WORKFLOW, SPARK} |-> IF n = WORKFLOW THEN "workflows" ELSE "spark"]

KeyErrorStr == "KeyError"

\* the lookup of line 412 without .upper()
get_api_workflow_name_exact(workflow) ==
  IF workflow \in DOMAIN Workflows THEN Workflows[workflow] ELSE KeyErrorStr

\* Workflows.get_api_workflow_name(workflow): the value, or KeyErrorStr when
\* the lookup raises
get_api_workflow_name(workflow) ==
  IF upper(workflow) \in DOMAIN Workflows THEN Workflows[upper(workflow)] ELSE KeyErrorStr

\* the strings spelling word with each letter in either case
Casings(lower_word, upper_word) ==
  { [i \in 1..Len(lower_word) |-> IF b[i] THEN upper_word[i] ELSE lower_word[i]]
      : b \in [1..Len(lower_word) -> BOOLEAN] }

WorkflowCasings == Casings(<<"w","o","r","k","f","l","o","w">>, WORKFLOW)
SparkCasings == Casings(<<"s","p","a","r","k">>, SPARK)

\* program type names that spell neither word: other program kinds, the path
\* segment itself, prefixes, padded and misspelt names, the empty string
OtherTypeNames ==
  { <<"M","a","p","R","e","d","u","c","e">>,
    <<"S","e","r","v","i","c","e">>,
    <<"w","o","r","k","f","l","o","w","s">>,
    <<"W","O","R","K","F","L","O","W","S">>,
    <<"s","p","a","r","k","s">>,
    <<"w","o","r","k">>,
    <<"f","l","o","w">>,
    <<"S","P","A","R">>,
    <<"s","p","a","r","k"," ">>,
    <<" ","W","o","r","k","f","l","o","w">>,
    <<"w","0","r","k","f","l","o","w">>,
    <<"w","o","r","k","_","f","l","o","w">>,
    <<>> }

\* the arguments get_api_workflow_name is called with
TypeNameArguments == WorkflowCasings \cup SparkCasings \cup OtherTypeNames

\* the loop keeping the first spark program instead of the last
RECURSIVE cdap_workflow_scan_first_spark(_, _, _)
cdap_workflow_scan_first_spark(program_list, i, spark_program) ==
  IF i > Len(program_list) THEN spark_program
  ELSE LET program == program_list[i]
           program_type == [k \in 1..Len(program.type) |-> UpperChar(program.type[k])]
       IN IF program_type = <<"W","O","R","K","F","L","O","W">> THEN program
          ELSE IF program_type = <<"S","P","A","R","K">> /\ spark_program = [none |-> TRUE]
               THEN cdap_workflow_scan_first_spark(program_list, i + 1, program)
               ELSE cdap_workflow_scan_first_spark(program_list, i + 1, spark_program)

\* the loop of get_cdap_workflow from position i with the spark program seen so far
RECURSIVE cdap_workflow_scan(_, _, _)
cdap_workflow_scan(program_list, i, spark_program) ==
  IF i > Len(program_list) THEN spark_program
  ELSE LET program == program_list[i]
           program_type == upper(program.type)
       IN IF program_type = WORKFLOW THEN program
          ELSE IF program_type = SPARK
               THEN cdap_workflow_scan(program_list, i + 1, program)
               ELSE cdap_workflow_scan(program_list, i + 1, spark_program)

\* Workflows.get_cdap_workflow(program_list)
get_cdap_workflow(program_list) == cdap_workflow_scan(program_list, 1, NoneV)

\* -------------------------------------- last execution (lines 226 to 230)
\* Python's order on the tuples (starting, index)
TupleLess(a, b) == a[1] < b[1] \/ (a[1] = b[1] /\ a[2] < b[2])

\* insert t into a sequence sorted in descending order
RECURSIVE InsertDesc(_, _)
InsertDesc(t, s) ==
  IF s = <<>> THEN <<t>>
  ELSE IF TupleLess(Head(s), t) THEN <<t>> \o s
       ELSE <<Head(s)>> \o InsertDesc(t, Tail(s))

\* sorted(tuples, reverse=True)
RECURSIVE sorted_reverse(_)
sorted_reverse(tuples) ==
  IF tuples = <<>> THEN <<>>
  ELSE InsertDesc(Head(tuples), sorted_reverse(Tail(tuples)))

\* the lowest index among the executions of maximum start time
index_of_max_start_time_lowest(execution_list) ==
  (CHOOSE i \in 1..Len(execution_list) :
     /\ \A j \in 1..Len(execution_list) :
          execution_list[j].starting <= execution_list[i].starting
     /\ \A j \in 1..(i - 1) :
          execution_list[j].starting < execution_list[i].starting) - 1

\* the 0-based index_of_max_start_time of a non-empty execution list
index_of_max_start_time(execution_list) ==
  sorted_reverse([i \in 1..Len(execution_list) |-> <<execution_list[i].starting, i - 1>>])[1][2]

\* str(value) of a JSON scalar
str(value) == IF "s" \in DOMAIN value THEN value.s ELSE ToString(value.n)

\* the value get_last_executed_workflow_id returns for a fetched execution list
last_executed_id(execution_list) ==
  IF Len(execution_list) = 0 THEN ""
  ELSE str(execution_list[index_of_max_start_time(execution_list) + 1].runid)


\* ------------------------------------------------------------ the client
VARIABLES
  pc,             \* "new": not constructed; "idle": between calls; "returned":
                  \* a call has just finished; "failed": __init__ raised
  kerberized,     \* self.kerberized
  verify,         \* self.verify
  ui_base_url,    \* self.ui_base_url
  rest_base_url,  \* self.rest_base_url
  rest_url,       \* self.rest_url
  access_token,   \* self.access_token
  ctor_log,       \* the requests __init__ issued
  ctor_token,     \* the access_token value the login of __init__ returned
  token_calls,    \* whether get_access_token has been called on the instance
  log,            \* the requests the last call handed to the executor, in order
  calls,          \* the stop_pipeline / delete_pipeline calls a bulk call made
  ret             \* the last call: its name, arguments, exception and result

fields == <<kerberized, verify, ui_base_url, rest_base_url, rest_url, access_token,
            ctor_log, ctor_token, token_calls>>
vars == <<pc, kerberized, verify, ui_base_url, rest_base_url, rest_url, access_token,
          ctor_log, ctor_token, token_calls, log, calls, ret>>

username == "user"
password == "secret"
namespace_id == "default"

\* "%s://%s:%s" % (scheme, node_ip, port)
BaseUrl(scheme, port) == [scheme |-> scheme, port |-> port, path |-> <<>>]
\* "%s/a/b" % base
Format(base, segments) == [base EXCEPT !.path = @ \o segments]

\* ApiRequestSpecification(method, url, query_params=, json=, verify=)
ApiRequestSpecification(method, url, query_params, json, v) ==
  [method |-> method, url |-> url, query_params |-> query_params, json |-> json,
   verify |-> v, bearer_token |-> NoneStr]

set_bearer_token(spec, token) == [spec EXCEPT !.bearer_token = token]

\* execute_request without the branch of lines 59 and 60
execute_request_no_token(api_request_specification) == api_request_specification

\* Cdap.execute_request: the specification as handed to the executor
execute_request(api_request_specification) ==
  IF kerberized = "True"
    THEN set_bearer_token(api_request_specification, access_token)
    ELSE api_request_specification

\* an outcome of a (sub)call: the requests issued, the exception raised ("none"
\* when it returns) and the value returned
Outcome(reqs, exc, val) == [reqs |-> reqs, exc |-> exc, val |-> val]

RawResponses == { [status_code |-> c] : c \in StatusCodes }

\* a dispatched request whose raw response is returned
Raw(request) ==
  {Outcome(<<request>>, "ConnectionError", NoneV)}
    \cup { Outcome(<<request>>, "none", r) : r \in RawResponses }

\* the values S can return
Returned(S) == { o.val : o \in { x \in S : x.exc = "none" } }

\* S, then the outcomes K[v] on the value v that S returned; an exception of S
\* propagates
Bind(S, K, dummy) ==
  UNION { IF o.exc # "none"
            THEN {Outcome(o.reqs, o.exc, dummy)}
            ELSE { Outcome(o.reqs \o n.reqs, n.exc, n.val) : n \in K[o.val] }
          : o \in S }

Raise(e, dummy) == {Outcome(<<>>, e, dummy)}
Value(v) == {Outcome(<<>>, "none", v)}

\* a dispatched request and the responses the server may give
Dispatch(request, responses) ==
  {Outcome(<<request>>, "ConnectionError", NoneV)}
    \cup { Outcome(<<request>>, "none", r) : r \in responses }

\* ------------------------------------------------ construction and login
\* line 28 assigning False
verify_initial_false == FALSE

verify_initial == TRUE
ui_base_url_initial == BaseUrl("http", "ui_port")
rest_base_url_initial == BaseUrl("http", "rest_port")
\* line 26, computed from the base URL of line 25
rest_url_initial == Format(rest_base_url_initial, <<"v3", "namespaces", namespace_id>>)

\* get_access_token, lines 43 to 48: the login request
LoginRequest(user, pass) ==
  ApiRequestSpecification("POST", Format(BaseUrl("https", "ui_port"), <<"login">>), {},
                          [username |-> user, password |-> pass], FALSE)

\* get_access_token: the login request goes to the executor directly
GetAccessToken(user, pass) ==
  { Outcome(<<LoginRequest(user, pass)>>, e, NoneStr) : e \in {"ConnectionError", "KeyError"} }
    \cup { Outcome(<<LoginRequest(user, pass)>>, "none", t) : t \in Tokens }

\* the fields get_access_token assigns (lines 43 to 45)
AccessTokenFields ==
  /\ verify' = FALSE
  /\ ui_base_url' = BaseUrl("https", "ui_port")
  /\ rest_base_url' = BaseUrl("https", "rest_port")

NoCall == [op |-> "none"]

Init ==
  /\ pc = "new"
  /\ kerberized = NoneStr
  /\ verify = verify_initial
  /\ ui_base_url = ui_base_url_initial
  /\ rest_base_url = rest_base_url_initial
  /\ rest_url = rest_url_initial
  /\ access_token = NoneStr
  /\ ctor_log = <<>>
  /\ ctor_token = NoneStr
  /\ token_calls = FALSE
  /\ log = <<>>
  /\ calls = <<>>
  /\ ret = NoCall

\* Cdap.__init__(..., kerberized=k)
Construct ==
  /\ pc = "new"
  /\ \E k \in KerberizedValues :
       /\ kerberized' = k
       /\ rest_url' = rest_url_initial
       /\ calls' = <<>>
       /\ token_calls' = FALSE
       /\ IF k = "True"
            THEN \E o \in GetAccessToken(username, password) :
                   /\ AccessTokenFields
                   /\ access_token' = o.val
                   /\ log' = o.reqs
                   /\ ctor_log' = o.reqs
                   /\ ctor_token' = o.val
                   /\ pc' = IF o.exc = "none" THEN "returned" ELSE "failed"
                   /\ ret' = [op |-> "__init__", exc |-> o.exc]
            ELSE /\ verify' = verify_initial
                 /\ ui_base_url' = ui_base_url_initial
                 /\ rest_base_url' = rest_base_url_initial
                 /\ access_token' = NoneStr
                 /\ log' = <<>>
                 /\ ctor_log' = <<>>
                 /\ ctor_token' = NoneStr
                 /\ pc' = "returned"
                 /\ ret' = [op |-> "__init__", exc |-> "none"]

\* a finished call returns to the caller: the request specifications and the
\* responses of the call go out of scope, the instance keeps its fields
Return ==
  /\ pc = "returned"
  /\ pc' = "idle"
  /\ log' = <<>>
  /\ calls' = <<>>
  /\ ret' = NoCall
  /\ UNCHANGED fields

\* a call of a method that assigns no field
Finish(r, reqs, cs) ==
  /\ pc' = "returned"
  /\ ret' = r
  /\ log' = reqs
  /\ calls' = cs
  /\ UNCHANGED fields

\* Cdap.get_access_token(username, password) called by the user of the instance
get_access_token ==
  /\ pc = "idle"
  /\ \E o \in GetAccessToken(username, password) :
       /\ AccessTokenFields
       /\ pc' = "returned"
       /\ ret' = [op |-> "get_access_token", exc |-> o.exc, token |-> o.val]
       /\ log' = o.reqs
       /\ calls' = <<>>
       /\ token_calls' = TRUE
       /\ UNCHANGED <<kerberized, rest_url, access_token, ctor_log, ctor_token>>


\* --------------------------------------------------- single-request calls
Truthy(x) == x # NoneStr /\ x # ""

\* apps(): lines 75 to 82
AppsRequest(artifact_name, artifact_version) ==
  execute_request(ApiRequestSpecification("GET", Format(rest_url, <<"apps">>),
    (IF Truthy(artifact_name) THEN {[key |-> "artifactName", value |-> artifact_name]} ELSE {})
      \cup (IF Truthy(artifact_version)
              THEN {[key |-> "artifactVersion", value |-> artifact_version]} ELSE {}),
    NoneV, verify))

apps ==
  /\ pc = "idle"
  /\ \E an \in ArtifactNames, av \in ArtifactVersions :
       \E o \in Raw(AppsRequest(an, av)) :
         Finish([op |-> "apps", exc |-> o.exc, response |-> o.val], o.reqs, <<>>)

\* get_all_pipelines(): the names of the listed apps, in order
GetAllPipelines(artifact_name, artifact_version) ==
  LET request == AppsRequest(artifact_name, artifact_version)
  IN { Outcome(<<request>>, e, <<>>) : e \in {"ConnectionError", "KeyError"} }
       \cup { Outcome(<<request>>, "none", names) : names \in PipelineLists }

get_all_pipelines ==
  /\ pc = "idle"
  /\ \E an \in ArtifactNames, av \in ArtifactVersions :
       \E o \in GetAllPipelines(an, av) :
         Finish([op |-> "get_all_pipelines", exc |-> o.exc, pipelines |-> o.val], o.reqs, <<>>)

\* get_pipeline_info(pipeline_name): lines 132 to 134
PipelineInfoRequest(pipeline_name) ==
  execute_request(ApiRequestSpecification("GET", Format(rest_url, <<"apps", pipeline_name>>),
                                          {}, NoneV, verify))

GetPipelineInfo(pipeline_name) == Raw(PipelineInfoRequest(pipeline_name))

get_pipeline_info ==
  /\ pc = "idle"
  /\ \E p \in PipelineNames : \E o \in GetPipelineInfo(p) :
       Finish([op |-> "get_pipeline_info", pipeline_name |-> p, exc |-> o.exc,
               response |-> o.val], o.reqs, <<>>)

\* the PUT of create_pipeline: lines 117 to 119
PutRequest(pipeline_name, input_json) ==
  execute_request(ApiRequestSpecification("PUT", Format(rest_url, <<"apps", pipeline_name>>),
                                          {}, input_json, verify))

\* line 114 with the comparison inverted
PipelineExists_inverted(probe) == probe.status_code # HTTP_OK

\* the second operand of the condition of line 114, on the probe's response
PipelineExists(probe) == probe.status_code = HTTP_OK

\* create_pipeline(pipeline_name, overwrite_pipeline, input_json); the value is
\* the response of the probe (NoneV when none came), created = FALSE for the
\* return of False, and the response of the PUT
CreatePipeline(pipeline_name, overwrite_pipeline, input_json) ==
  LET Put(probe) ==
        { Outcome(o.reqs, o.exc, [probe |-> probe, created |-> o.exc = "none",
                                  response |-> o.val])
            : o \in Raw(PutRequest(pipeline_name, input_json)) }
      notCreated(probe) == [probe |-> probe, created |-> FALSE, response |-> NoneV]
      Decide(probe) ==
        IF PipelineExists(probe) THEN Value(notCreated(probe)) ELSE Put(probe)
  IN IF overwrite_pipeline = "False"
       THEN Bind(GetPipelineInfo(pipeline_name),
                 [probe \in Returned(GetPipelineInfo(pipeline_name)) |-> Decide(probe)],
                 notCreated(NoneV))
       ELSE Put(NoneV)

create_pipeline ==
  /\ pc = "idle"
  /\ \E p \in PipelineNames, ow \in Overwrites, j \in InputJsons :
       \E o \in CreatePipeline(p, ow, j) :
         Finish([op |-> "create_pipeline", pipeline_name |-> p, overwrite_pipeline |-> ow,
                 input_json |-> j, exc |-> o.exc, probe |-> o.val.probe,
                 created |-> o.val.created, response |-> o.val.response], o.reqs, <<>>)

\* get_programs(pipeline_name): get_pipeline_info(...).json()["programs"]
GetPrograms(pipeline_name) ==
  LET request == PipelineInfoRequest(pipeline_name)
  IN { Outcome(<<request>>, e, <<>>) : e \in {"ConnectionError", "KeyError"} }
       \cup { Outcome(<<request>>, "none", programs) : programs \in ProgramLists }

get_programs ==
  /\ pc = "idle"
  /\ \E p \in PipelineNames : \E o \in GetPrograms(p) :
       Finish([op |-> "get_programs", pipeline_name |-> p, exc |-> o.exc,
               programs |-> o.val], o.reqs, <<>>)

\* get_workflow(pipeline_name) with the program list it fetched
GetWorkflowOf(pipeline_name) ==
  { Outcome(o.reqs, o.exc,
            [program_list |-> o.val,
             workflow |-> IF o.exc = "none" THEN get_cdap_workflow(o.val) ELSE NoneV])
      : o \in GetPrograms(pipeline_name) }

\* what get_cdap_workflow returns over the program lists the server may send
ResolvedWorkflows == { get_cdap_workflow(program_list) : program_list \in ProgramLists }

\* get_workflow fetching the pipeline info twice
GetWorkflow_refetch(pipeline_name) ==
  LET request == PipelineInfoRequest(pipeline_name)
  IN { Outcome(<<request>>, e, NoneV) : e \in {"ConnectionError", "KeyError"} }
       \cup { Outcome(<<request, request>>, "none", workflow) : workflow \in ResolvedWorkflows }

\* get_workflow(pipeline_name): the value is the workflow
GetWorkflow(pipeline_name) ==
  LET request == PipelineInfoRequest(pipeline_name)
  IN { Outcome(<<request>>, e, NoneV) : e \in {"ConnectionError", "KeyError"} }
       \cup { Outcome(<<request>>, "none", workflow) : workflow \in ResolvedWorkflows }

get_workflow ==
  /\ pc = "idle"
  /\ \E p \in PipelineNames : \E o \in GetWorkflowOf(p) :
       Finish([op |-> "get_workflow", pipeline_name |-> p, exc |-> o.exc,
               program_list |-> o.val.program_list, workflow |-> o.val.workflow],
              o.reqs, <<>>)

\* is_streaming_pipeline(pipeline_name)
RECURSIVE HasStreamingSource(_)
HasStreamingSource(plugins) ==
  IF plugins = <<>> THEN FALSE
  ELSE IF Head(plugins).type = "streamingsource" THEN TRUE
       ELSE HasStreamingSource(Tail(plugins))

is_streaming_pipeline ==
  /\ pc = "idle"
  /\ \E p \in PipelineNames :
       LET request == PipelineInfoRequest(p)
       IN \/ \E e \in {"ConnectionError", "KeyError"} :
               Finish([op |-> "is_streaming_pipeline", pipeline_name |-> p, exc |-> e,
                       plugins |-> <<>>, streaming |-> FALSE], <<request>>, <<>>)
          \/ \E plugins \in PluginLists :
               Finish([op |-> "is_streaming_pipeline", pipeline_name |-> p, exc |-> "none",
                       plugins |-> plugins, streaming |-> HasStreamingSource(plugins)],
                      <<request>>, <<>>)

\* delete_pipeline(pipeline_name)
DeletePipeline(pipeline_name) ==
  Raw(execute_request(ApiRequestSpecification("DELETE",
        Format(rest_url, <<"apps", pipeline_name>>), {}, NoneV, verify)))

delete_pipeline ==
  /\ pc = "idle"
  /\ \E p \in PipelineNames : \E o \in DeletePipeline(p) :
       Finish([op |-> "delete_pipeline", pipeline_name |-> p, exc |-> o.exc,
               response |-> o.val], o.reqs, <<>>)

\* ------------------------------------------------------------ query calls
query_dataset ==
  /\ pc = "idle"
  /\ \E q \in Queries :
       \E o \in Raw(execute_request(ApiRequestSpecification("POST",
                  Format(rest_url, <<"data", "explore", "queries">>), {},
                  [query |-> q], verify))) :
         Finish([op |-> "query_dataset", exc |-> o.exc, response |-> o.val], o.reqs, <<>>)

\* "%s/v3/data/explore/queries/%s/<what>" % (self.rest_base_url, query_handle)
QueryUrl(query_handle, what) ==
  Format(rest_base_url, <<"v3", "data", "explore", "queries", query_handle, what>>)

QueryCall(op, method, what) ==
  /\ pc = "idle"
  /\ \E h \in QueryHandles :
       \E o \in Raw(execute_request(ApiRequestSpecification(method, QueryUrl(h, what),
                                                            {}, NoneV, verify))) :
         Finish([op |-> op, exc |-> o.exc, response |-> o.val], o.reqs, <<>>)

get_query_status == QueryCall("get_query_status", "GET", "status")
download_query_results == QueryCall("download_query_results", "POST", "download")
view_query_result == QueryCall("view_query_result", "POST", "next")
schema == QueryCall("schema", "GET", "schema")


\* ------------------------------------------------ calls made of several
\* responses to GET .../runs and to GET .../runs/{id}: valid is FALSE when the
\* body does not parse or lacks the field that is read
RunsResponses ==
  { [status_code |-> 200, valid |-> TRUE, body |-> el] : el \in ExecLists }
    \cup {[status_code |-> 404, valid |-> FALSE, body |-> <<>>]}

RunResponses ==
  { [status_code |-> 200, valid |-> TRUE, status |-> st] : st \in StatusValues }
    \cup {[status_code |-> 404, valid |-> FALSE, status |-> NoneV]}

\* workflow["name"] and get_api_workflow_name(workflow["type"]) of lines 191/192,
\* 211/212 and 350/351: the exception they raise ("none" when they do not)
ProgramPathError(workflow) ==
  IF workflow = NoneV THEN "TypeError"
  ELSE IF get_api_workflow_name(workflow.type) = KeyErrorStr THEN "KeyError"
       ELSE "none"

\* the path segments <<workflow_type, workflow_id>>
ProgramPath(workflow) == <<get_api_workflow_name(workflow.type), workflow.name>>

\* start_pipeline(pipeline_name)
StartPipeline(pipeline_name) ==
  LET rest_url_ == Format(rest_url, <<"start">>)
      Post(workflow) ==
        IF workflow = NoneV THEN Raise("TypeError", NoneV)
        ELSE Raw(execute_request(ApiRequestSpecification("POST", rest_url_, {},
               [batch |-> <<[appId |-> workflow.app, programType |-> workflow.type,
                             programId |-> workflow.name]>>], verify)))
  IN Bind(GetWorkflow(pipeline_name), [workflow \in ResolvedWorkflows |-> Post(workflow)],
          NoneV)

start_pipeline ==
  /\ pc = "idle"
  /\ \E p \in PipelineNames : \E o \in StartPipeline(p) :
       Finish([op |-> "start_pipeline", pipeline_name |-> p, exc |-> o.exc,
               response |-> o.val], o.reqs, <<>>)

\* get_workflow_executions(pipeline_name)
GetWorkflowExecutions(pipeline_name) ==
  LET Get(path) ==
        Dispatch(execute_request(ApiRequestSpecification("GET",
                   Format(rest_url, <<"apps", pipeline_name>> \o path \o <<"runs">>),
                   {}, NoneV, verify)), RunsResponses)
      Runs(workflow) ==
        IF ProgramPathError(workflow) # "none"
          THEN Raise(ProgramPathError(workflow), NoneV)
          ELSE Get(ProgramPath(workflow))
  IN Bind(GetWorkflow(pipeline_name), [workflow \in ResolvedWorkflows |-> Runs(workflow)],
          NoneV)

get_workflow_executions ==
  /\ pc = "idle"
  /\ \E p \in PipelineNames : \E o \in GetWorkflowExecutions(p) :
       Finish([op |-> "get_workflow_executions", pipeline_name |-> p, exc |-> o.exc,
               response |-> o.val], o.reqs, <<>>)

\* get_workflow_execution_by_id(pipeline_name, execution_id)
GetWorkflowExecutionById(pipeline_name, execution_id) ==
  LET Get(path) ==
        Dispatch(execute_request(ApiRequestSpecification("GET",
                   Format(rest_url, <<"apps", pipeline_name>> \o path
                                      \o <<"runs", execution_id>>),
                   {}, NoneV, verify)), RunResponses)
      Run(workflow) ==
        IF ProgramPathError(workflow) # "none"
          THEN Raise(ProgramPathError(workflow), NoneV)
          ELSE Get(ProgramPath(workflow))
  IN Bind(GetWorkflow(pipeline_name), [workflow \in ResolvedWorkflows |-> Run(workflow)],
          NoneV)

get_workflow_execution_by_id ==
  /\ pc = "idle"
  /\ \E p \in PipelineNames, id \in ExecutionIds :
       \E o \in GetWorkflowExecutionById(p, id) :
         Finish([op |-> "get_workflow_execution_by_id", pipeline_name |-> p,
                 execution_id |-> id, exc |-> o.exc, response |-> o.val], o.reqs, <<>>)

\* get_last_executed_workflow_id(pipeline_name) with the list it fetched
GetLastExecutedWorkflowIdOf(pipeline_name) ==
  LET none == [execution_list |-> <<>>, id |-> ""]
      Pick(response) ==
        IF ~response.valid THEN Raise("ValueError", none)
        ELSE Value([execution_list |-> response.body, id |-> last_executed_id(response.body)])
  IN Bind(GetWorkflowExecutions(pipeline_name),
          [response \in RunsResponses |-> Pick(response)], none)

\* get_last_executed_workflow_id(pipeline_name): the value is the run id
GetLastExecutedWorkflowId(pipeline_name) ==
  { Outcome(o.reqs, o.exc, o.val.id) : o \in GetLastExecutedWorkflowIdOf(pipeline_name) }

get_last_executed_workflow_id ==
  /\ pc = "idle"
  /\ \E p \in PipelineNames : \E o \in GetLastExecutedWorkflowIdOf(p) :
       Finish([op |-> "get_last_executed_workflow_id", pipeline_name |-> p, exc |-> o.exc,
               execution_list |-> o.val.execution_list, run_id |-> o.val.id],
              o.reqs, <<>>)

\* _update_status without the test of line 397
UpdateStatus_always_fetch(pipeline_name, execution_id) ==
  LET none == [fetched |-> NoneV, status |-> ""]
      Status(response) ==
        IF ~response.valid THEN Raise("KeyError", none)
        ELSE Value([fetched |-> response.status, status |-> str(response.status)])
  IN Bind(GetWorkflowExecutionById(pipeline_name, execution_id),
          [response \in RunResponses |-> Status(response)], none)

\* _update_status(pipeline_name, execution_id); the value carries the status
\* field that was fetched (NoneV when none was) and the string returned
UpdateStatus(pipeline_name, execution_id) ==
  LET none == [fetched |-> NoneV, status |-> ""]
      Status(response) ==
        IF ~response.valid THEN Raise("KeyError", none)
        ELSE Value([fetched |-> response.status, status |-> str(response.status)])
  IN IF execution_id = ""
       THEN Value([fetched |-> NoneV, status |-> "NOT_EXECUTED"])
       ELSE Bind(GetWorkflowExecutionById(pipeline_name, execution_id),
                 [response \in RunResponses |-> Status(response)], none)

get_workflow_execution_status_by_id ==
  /\ pc = "idle"
  /\ \E p \in PipelineNames, id \in ExecutionIds : \E o \in UpdateStatus(p, id) :
       Finish([op |-> "get_workflow_execution_status_by_id", pipeline_name |-> p,
               run_id |-> id, exc |-> o.exc, fetched |-> o.val.fetched,
               status |-> o.val.status], o.reqs, <<>>)

\* get_last_executed_workflow_status(pipeline_name)
GetLastExecutedWorkflowStatus(pipeline_name) ==
  LET none == [run_id |-> "", fetched |-> NoneV, status |-> ""]
      Status(run_id) ==
        { Outcome(o.reqs, o.exc, [run_id |-> run_id, fetched |-> o.val.fetched,
                                  status |-> o.val.status])
            : o \in UpdateStatus(pipeline_name, run_id) }
  IN Bind(GetLastExecutedWorkflowId(pipeline_name),
          [run_id \in Returned(GetLastExecutedWorkflowId(pipeline_name)) |-> Status(run_id)],
          none)

get_last_executed_workflow_status ==
  /\ pc = "idle"
  /\ \E p \in PipelineNames : \E o \in GetLastExecutedWorkflowStatus(p) :
       Finish([op |-> "get_last_executed_workflow_status", pipeline_name |-> p,
               run_id |-> o.val.run_id, exc |-> o.exc, fetched |-> o.val.fetched,
               status |-> o.val.status], o.reqs, <<>>)

\* stop_pipeline(pipeline_name)
StopPipeline(pipeline_name) ==
  LET Stop(execution_id) ==
        LET Post(path) ==
              Raw(execute_request(ApiRequestSpecification("POST",
                    Format(rest_url, <<"apps", pipeline_name>> \o path
                                       \o <<"runs", execution_id, "stop">>),
                    {}, NoneV, verify)))
            Resolve(workflow) ==
              IF ProgramPathError(workflow) # "none"
                THEN Raise(ProgramPathError(workflow), NoneV)
                ELSE Post(ProgramPath(workflow))
        IN Bind(GetWorkflow(pipeline_name),
                [workflow \in ResolvedWorkflows |-> Resolve(workflow)], NoneV)
  IN Bind(GetLastExecutedWorkflowId(pipeline_name),
          [execution_id \in Returned(GetLastExecutedWorkflowId(pipeline_name))
             |-> Stop(execution_id)], NoneV)

\* what a stop_pipeline call has seen when it ends: the step it ended in ("id":
\* line 348 raised, "workflow": line 349 raised, "path": lines 350/351 raised,
\* "post": the request of line 355 was dispatched), the execution list and the
\* run id of line 348, the workflow of line 349, the response of line 355
StopSeen(stage, last, workflow, response) ==
  [stage |-> stage, execution_list |-> last.execution_list, run_id |-> last.id,
   workflow |-> workflow, response |-> response]

NoLast == [execution_list |-> <<>>, id |-> ""]

\* stop_pipeline, lines 352 to 355: the POST on the run of the workflow
StopPost(pipeline_name, last, workflow) ==
  { Outcome(o.reqs, o.exc, StopSeen("post", last, workflow, o.val))
      : o \in Raw(execute_request(ApiRequestSpecification("POST",
                Format(rest_url, <<"apps", pipeline_name>> \o ProgramPath(workflow)
                                   \o <<"runs", last.id, "stop">>),
                {}, NoneV, verify))) }

\* stop_pipeline, lines 350 to 355, with the workflow of line 349
StopResolve(pipeline_name, last, workflow) ==
  IF ProgramPathError(workflow) # "none"
    THEN Raise(ProgramPathError(workflow), StopSeen("path", last, workflow, NoneV))
    ELSE StopPost(pipeline_name, last, workflow)

\* lines 349 to 355 returning None, without a request, for the empty run id
StopRun_short_circuit(pipeline_name, last) ==
  IF last.id = ""
    THEN Value(StopSeen("skipped", last, NoneV, NoneV))
    ELSE Bind(GetWorkflow(pipeline_name),
              [workflow \in ResolvedWorkflows |-> StopResolve(pipeline_name, last, workflow)],
              StopSeen("workflow", last, NoneV, NoneV))

\* stop_pipeline, lines 349 to 355, with the result last of line 348
StopRun(pipeline_name, last) ==
  Bind(GetWorkflow(pipeline_name),
       [workflow \in ResolvedWorkflows |-> StopResolve(pipeline_name, last, workflow)],
       StopSeen("workflow", last, NoneV, NoneV))

\* stop_pipeline(pipeline_name): line 348, then lines 349 to 355 on its result
stop_pipeline ==
  /\ pc = "idle"
  /\ \E p \in PipelineNames : \E first \in GetLastExecutedWorkflowIdOf(p) :
       \E o \in (IF first.exc # "none"
                   THEN {Outcome(<<>>, first.exc, StopSeen("id", NoLast, NoneV, NoneV))}
                   ELSE StopRun(p, first.val)) :
         Finish([op |-> "stop_pipeline", pipeline_name |-> p, exc |-> o.exc,
                 stage |-> o.val.stage, execution_list |-> o.val.execution_list,
                 run_id |-> o.val.run_id, workflow |-> o.val.workflow,
                 response |-> o.val.response], first.reqs \o o.reqs, <<>>)

\* Workflows.get_api_workflow_name(workflow) called on the enumeration: no
\* request is issued and no field is assigned
Workflows_get_api_workflow_name ==
  /\ pc = "idle"
  /\ \E workflow \in TypeNameArguments :
       LET value == get_api_workflow_name(workflow)
       IN Finish([op |-> "get_api_workflow_name", type_name |-> workflow,
                  exc |-> IF value = KeyErrorStr THEN "KeyError" ELSE "none",
                  segment |-> IF value = KeyErrorStr THEN NoneStr ELSE value],
                 <<>>, <<>>)

\* ------------------------------------------------------------- bulk calls
Min(a, b) == IF a < b THEN a ELSE b

\* a request of a nested call as the bulk call records it: the URL is cut after
\* ".../v3/namespaces/{ns}/apps/{name}"
Shape(request) ==
  [method |-> request.method,
   url |-> [request.url EXCEPT !.path = SubSeq(@, 1, Min(Len(@), 5))],
   verify |-> request.verify,
   bearer_token |-> request.bearer_token]

\* one call of `method`(pipeline_name) made by a bulk call, with outcome o
NestedCall(method, pipeline_name, o) ==
  [method |-> method, pipeline_name |-> pipeline_name, exc |-> o.exc,
   reqs |-> [i \in 1..Len(o.reqs) |-> Shape(o.reqs[i])]]

StopCalls(pipeline_name) ==
  { NestedCall("stop_pipeline", pipeline_name, o) : o \in StopPipeline(pipeline_name) }

DeleteCalls(pipeline_name) ==
  { NestedCall("delete_pipeline", pipeline_name, o) : o \in DeletePipeline(pipeline_name) }

\* for each listed name in order, one way its call can go; C[p] is the set of
\* the ways a call for p can go
CallsFor(names, C) ==
  { cs \in [1..Len(names) -> UNION { C[p] : p \in PipelineNames }] :
      \A i \in 1..Len(names) : cs[i] \in C[names[i]] }

\* every exception the calls raise is an instance of Exception
IsException(e) == e \in {"ConnectionError", "KeyError", "TypeError", "ValueError"}

\* the loop of delete_all_pipelines with the try/except of stop_all_pipelines
delete_all_loop_tolerant(cs, i, made) == [calls |-> cs, exc |-> "none"]

\* the loop of delete_all_pipelines (lines 384 and 385) from position i
RECURSIVE delete_all_loop(_, _, _)
delete_all_loop(cs, i, made) ==
  IF i > Len(cs) THEN [calls |-> made, exc |-> "none"]
  ELSE IF cs[i].exc = "none"
         THEN delete_all_loop(cs, i + 1, Append(made, cs[i]))
         ELSE [calls |-> Append(made, cs[i]), exc |-> cs[i].exc]

\* the loop of stop_all_pipelines without its try/except
stop_all_loop_no_try(cs, i, made) == delete_all_loop(cs, i, made)

\* the loop of stop_all_pipelines (lines 359 to 363) from position i: the
\* calls it makes and the exception that leaves it
RECURSIVE stop_all_loop(_, _, _)
stop_all_loop(cs, i, made) ==
  IF i > Len(cs) THEN [calls |-> made, exc |-> "none"]
  ELSE IF cs[i].exc = "none" \/ IsException(cs[i].exc)
         THEN stop_all_loop(cs, i + 1, Append(made, cs[i]))
         ELSE [calls |-> Append(made, cs[i]), exc |-> cs[i].exc]

stop_all_pipelines ==
  /\ pc = "idle"
  /\ \E stops \in {[p \in PipelineNames |-> StopCalls(p)]} :
     \E o \in GetAllPipelines(NoneStr, NoneStr) :
       IF o.exc # "none"
         THEN Finish([op |-> "stop_all_pipelines", exc |-> o.exc, listed |-> FALSE,
                      pipelines |-> o.val], o.reqs, <<>>)
         ELSE \E cs \in CallsFor(o.val, stops) :
                LET r == stop_all_loop(cs, 1, <<>>)
                IN Finish([op |-> "stop_all_pipelines", exc |-> r.exc, listed |-> TRUE,
                           pipelines |-> o.val], o.reqs, r.calls)

delete_all_pipelines ==
  /\ pc = "idle"
  /\ \E deletes \in {[p \in PipelineNames |-> DeleteCalls(p)]} :
     \E an \in ArtifactNames, av \in ArtifactVersions :
       \E o \in GetAllPipelines(an, av) :
         IF o.exc # "none"
           THEN Finish([op |-> "delete_all_pipelines", exc |-> o.exc, listed |-> FALSE,
                        pipelines |-> o.val], o.reqs, <<>>)
           ELSE \E cs \in CallsFor(o.val, deletes) :
                  LET r == delete_all_loop(cs, 1, <<>>)
                  IN Finish([op |-> "delete_all_pipelines", exc |-> r.exc, listed |-> TRUE,
                             pipelines |-> o.val], o.reqs, r.calls)

\* ---------------------------------------------------------- specification
Next ==
  \/ Construct
  \/ Return
  \/ get_access_token
  \/ apps
  \/ get_all_pipelines
  \/ create_pipeline
  \/ get_pipeline_info
  \/ get_programs
  \/ get_workflow
  \/ start_pipeline
  \/ get_workflow_executions
  \/ get_workflow_execution_by_id
  \/ get_last_executed_workflow_id
  \/ get_last_executed_workflow_status
  \/ get_workflow_execution_status_by_id
  \/ query_dataset
  \/ get_query_status
  \/ download_query_results
  \/ view_query_result
  \/ schema
  \/ is_streaming_pipeline
  \/ stop_pipeline
  \/ Workflows_get_api_workflow_name
  \/ stop_all_pipelines
  \/ delete_pipeline
  \/ delete_all_pipelines

Spec == Init /\ [][Next]_vars


\* ------------------------------------------------------------ properties
Constructed == pc \in {"idle", "returned"}

\* the requests of the last call, those of its nested calls included
Requests ==
  { log[i] : i \in 1..Len(log) }
    \cup UNION { { calls[i].reqs[j] : j \in 1..Len(calls[i].reqs) } : i \in 1..Len(calls) }

IsLogin(r) == r.method = "POST" /\ r.url.port = "ui_port" /\ r.url.path = <<"login">>

\* __init__ issued exactly one request, the login, and the stored token is the
\* one that login returned
OneLoginAtConstruction ==
  /\ Len(ctor_log) = 1
  /\ IsLogin(ctor_log[1])
  /\ ctor_log[1].json = [username |-> username, password |-> password]
  /\ ctor_token \in Tokens
  /\ access_token = ctor_token
  /\ (ret.op = "__init__" => log = ctor_log)

\* C1 as stated: a client constructed with kerberized=True has issued exactly
\* one login request at construction, before any other request; every request
\* of every later call carries the token that login returned as bearer token;
\* the stored token is the one that login returned.
C1_AsStated ==
  (Constructed /\ kerberized = "True") =>
    /\ OneLoginAtConstruction
    /\ (ret.op # "__init__" =>
          (\A r \in Requests : r.bearer_token = ctor_token))

\* C1 amended: as C1, except that the login request of a later direct call of
\* get_access_token carries no bearer token (and leaves the stored token alone).
C1_TokenOnEveryRequest ==
  (Constructed /\ kerberized = "True") =>
    /\ OneLoginAtConstruction
    /\ (ret.op \notin {"__init__", "get_access_token"} =>
          (\A r \in Requests : r.bearer_token = ctor_token /\ ~IsLogin(r)))
    /\ (ret.op = "get_access_token" =>
          /\ Len(log) = 1 /\ IsLogin(log[1]) /\ log[1].bearer_token = NoneStr
          /\ calls = <<>>)

\* a kerberized client has stopped a pipeline in four requests after a direct
\* call of get_access_token
C1_Witness ==
  /\ pc = "returned" /\ kerberized = "True" /\ token_calls
  /\ ret.op = "stop_pipeline" /\ Len(log) = 4
  /\ access_token = "tok2"

\* C2: for a client constructed with kerberized=True, the login request and every
\* request of every later call target an HTTPS URL with TLS verification off.
C2_HttpsEverywhere ==
  (Constructed /\ kerberized = "True") =>
    /\ \A i \in 1..Len(ctor_log) :
         ctor_log[i].url.scheme = "https" /\ ctor_log[i].verify = FALSE
    /\ (\A r \in Requests : r.url.scheme = "https" /\ r.verify = FALSE)

NotKerberized == Constructed /\ kerberized # "True"

PlainRequest(r) == r.url.scheme = "http" /\ r.verify = TRUE

\* C3 as stated: for a client constructed with kerberized not True, after any
\* sequence of public methods, __init__ made no login request, every request
\* targets an HTTP URL with TLS verification on, and none carries a bearer token.
C3_AsStated ==
  NotKerberized =>
    /\ ctor_log = <<>>
    /\ (\A r \in Requests : PlainRequest(r) /\ r.bearer_token = NoneStr)

\* C3 amended: for a client constructed with kerberized not True, __init__ made
\* no login request and no request ever carries a bearer token; as long as
\* get_access_token has not been called on the instance, every request targets
\* an HTTP URL with TLS verification on.
C3_PlainUnlessTokenCall ==
  NotKerberized =>
    /\ ctor_log = <<>>
    /\ access_token = NoneStr
    /\ (\A r \in Requests : r.bearer_token = NoneStr)
    /\ (~token_calls => \A r \in Requests : PlainRequest(r))

\* a client constructed with kerberized=False has stopped all of two pipelines,
\* four requests each
C3_Witness ==
  /\ pc = "returned" /\ kerberized = "False" /\ ~token_calls
  /\ ret.op = "stop_all_pipelines" /\ Len(calls) = 2
  /\ Len(calls[1].reqs) = 4 /\ Len(calls[2].reqs) = 4


NamespacedPath(segments) == <<"v3", "namespaces", namespace_id>> \o segments

\* C4: create_pipeline(name, overwrite, json): when overwrite is False and the
\* probe GET of apps/{name} answers 200, it returns False and issues no PUT;
\* when overwrite is not False, or the probe answers another status, it issues
\* exactly one PUT to apps/{name} with the deployment JSON, as its last request,
\* and returns the response to it.
C4_CreatePipeline ==
  (pc = "returned" /\ ret.op = "create_pipeline") =>
    LET puts == { i \in 1..Len(log) : log[i].method = "PUT" }
        probed == ret.probe # NoneV
    IN /\ ret.overwrite_pipeline = "False" =>
            /\ Len(log) >= 1
            /\ log[1].method = "GET"
            /\ log[1].url.path = NamespacedPath(<<"apps", ret.pipeline_name>>)
       /\ (ret.overwrite_pipeline = "False" /\ probed /\ ret.probe.status_code = 200) =>
            /\ ret.exc = "none" /\ ~ret.created /\ ret.response = NoneV
            /\ puts = {}
       /\ (ret.overwrite_pipeline # "False"
             \/ (probed /\ ret.probe.status_code # 200)) =>
            /\ puts = {Len(log)}
            /\ log[Len(log)].url.path = NamespacedPath(<<"apps", ret.pipeline_name>>)
            /\ log[Len(log)].json = ret.input_json
            /\ (ret.exc = "none" => ret.created /\ ret.response \in RawResponses)

\* create_pipeline with overwrite False found the pipeline and returned False
C4_Witness ==
  /\ pc = "returned" /\ ret.op = "create_pipeline" /\ ret.overwrite_pipeline = "False"
  /\ ret.probe = [status_code |-> 200] /\ ~ret.created /\ Len(log) = 1

\* C5: once the server has returned the list of names, stop_all_pipelines calls
\* stop_pipeline exactly once for every listed name, in list order, whichever
\* of the calls raise, and returns without raising.
C5_StopAllContinues ==
  (pc = "returned" /\ ret.op = "stop_all_pipelines" /\ ret.listed) =>
    /\ ret.exc = "none"
    /\ Len(calls) = Len(ret.pipelines)
    /\ \A i \in 1..Len(calls) :
         /\ calls[i].method = "stop_pipeline"
         /\ calls[i].pipeline_name = ret.pipelines[i]
         /\ Len(calls[i].reqs) >= 1
         /\ \A j \in 1..Len(calls[i].reqs) :
              calls[i].reqs[j].url.path = NamespacedPath(<<"apps", ret.pipelines[i]>>)

\* the stop of the first of two pipelines raised and the second was stopped
C5_Witness ==
  /\ pc = "returned" /\ ret.op = "stop_all_pipelines" /\ ret.listed
  /\ ret.pipelines = <<"p1", "p2">>
  /\ Len(calls) = 2 /\ calls[1].exc = "TypeError" /\ calls[2].exc = "none"

IsDeleteOf(call, name) ==
  /\ call.method = "delete_pipeline"
  /\ call.pipeline_name = name
  /\ Len(call.reqs) = 1
  /\ call.reqs[1].method = "DELETE"
  /\ call.reqs[1].url.path = NamespacedPath(<<"apps", name>>)

\* C6: once the server has returned the list of names, delete_all_pipelines
\* issues one DELETE per name in list order; if the k-th delete raises, the
\* error propagates and exactly the first k DELETEs have been issued; if none
\* raises, there is exactly one DELETE per listed name.
C6_DeleteAllAborts ==
  (pc = "returned" /\ ret.op = "delete_all_pipelines" /\ ret.listed) =>
    LET n == Len(ret.pipelines)
        k == Len(calls)
    IN /\ k <= n
       /\ \A i \in 1..k : IsDeleteOf(calls[i], ret.pipelines[i])
       /\ \A i \in 1..(k - 1) : calls[i].exc = "none"
       /\ IF ret.exc = "none"
            THEN k = n /\ \A i \in 1..k : calls[i].exc = "none"
            ELSE k >= 1 /\ calls[k].exc = ret.exc

\* the delete of the first of two pipelines raised: one DELETE, error propagated
C6_Witness ==
  /\ pc = "returned" /\ ret.op = "delete_all_pipelines" /\ ret.listed
  /\ Len(ret.pipelines) = 2 /\ Len(calls) = 1 /\ ret.exc = "ConnectionError"

\* t spells the word whose lower-case and upper-case letters are lc and uc
SpellsIgnoringCase(t, lc, uc) ==
  Len(t) = Len(lc) /\ \A i \in 1..Len(t) : t[i] = lc[i] \/ t[i] = uc[i]
IsWorkflowType(t) == SpellsIgnoringCase(t, <<"w","o","r","k","f","l","o","w">>, WORKFLOW)
IsSparkType(t) == SpellsIgnoringCase(t, <<"s","p","a","r","k">>, SPARK)

C8_LastExecutedId ==
  (pc = "returned" /\ ret.op = "get_last_executed_workflow_id" /\ ret.exc = "none") =>
    LET el == ret.execution_list
    IN IF el = <<>> THEN ret.run_id = ""
       ELSE \E i \in 1..Len(el) :
              /\ ret.run_id = el[i].runid.s
              /\ \A j \in 1..Len(el) : el[j].starting <= el[i].starting
              /\ \A j \in (i + 1)..Len(el) : el[j].starting < el[i].starting

\* starts 10, 30, 30 with runs a, b, c select c
C8_Witness ==
  /\ pc = "returned" /\ ret.op = "get_last_executed_workflow_id" /\ ret.exc = "none"
  /\ Len(ret.execution_list) = 3
  /\ ret.execution_list[1].starting = 10
  /\ ret.execution_list[2].starting = 30
  /\ ret.execution_list[3].starting = 30
  /\ ret.run_id = "c"

\* GET .../apps/{name}/{type}/{id}/runs/{run}: the fetch of one run
IsRunFetch(r) == r.method = "GET" /\ Len(r.url.path) = 9 /\ r.url.path[8] = "runs"

BulkOps == {"stop_all_pipelines", "delete_all_pipelines"}

\* C10 as stated: every public method other than the bulk ones issues at most
\* one request per call; a bulk one issues one request per pipeline.
C10_AsStated ==
  pc = "returned" =>
    /\ (ret.op \notin BulkOps => Len(log) <= 1)
    /\ (ret.op \in BulkOps => \A i \in 1..Len(calls) : Len(calls[i].reqs) = 1)

OneTripOps ==
  {"get_access_token", "apps", "get_all_pipelines", "get_pipeline_info", "get_programs",
   "get_workflow", "query_dataset", "get_query_status", "download_query_results",
   "view_query_result", "schema", "is_streaming_pipeline", "delete_pipeline"}
TwoTripOps ==
  {"create_pipeline", "start_pipeline", "get_workflow_executions",
   "get_workflow_execution_by_id", "get_last_executed_workflow_id"}
FourTripOps == {"stop_pipeline", "get_last_executed_workflow_status"}

\* C10 amended: a call issues exactly one request for the single-request
\* methods, one or two for create_pipeline, start_pipeline,
\* get_workflow_executions, get_workflow_execution_by_id and
\* get_last_executed_workflow_id, at most two for
\* get_workflow_execution_status_by_id, and one to four for stop_pipeline and
\* get_last_executed_workflow_status; a bulk call issues one listing request and
\* then, pipeline after pipeline in list order, exactly one request per
\* pipeline (delete_all_pipelines) or one to four (stop_all_pipelines).
C10_RoundTrips ==
  pc = "returned" =>
    /\ (ret.op = "__init__" => Len(log) <= 1)
    /\ (ret.op \in OneTripOps => Len(log) = 1)
    /\ (ret.op \in TwoTripOps => Len(log) \in 1..2)
    /\ (ret.op = "get_workflow_execution_status_by_id" => Len(log) \in 0..2)
    /\ (ret.op \in FourTripOps => Len(log) \in 1..4)
    /\ (ret.op \notin BulkOps => calls = <<>>)
    /\ (ret.op \in BulkOps =>
          /\ Len(log) = 1
          /\ Len(calls) <= Len(ret.pipelines)
          /\ \A i \in 1..Len(calls) :
               /\ calls[i].pipeline_name = ret.pipelines[i]
               /\ Len(calls[i].reqs) \in
                    (IF ret.op = "delete_all_pipelines" THEN 1..1 ELSE 1..4))

\* the status of the last run of a pipeline took four requests
C10_Witness ==
  /\ pc = "returned" /\ ret.op = "get_last_executed_workflow_status"
  /\ ret.exc = "none" /\ Len(log) = 4

\* C11: Workflows.get_api_workflow_name is case-insensitive: for every casing
\* of "workflow" it returns "workflows" and for every casing of "spark" it
\* returns "spark"; for every other type name it raises the lookup error,
\* returns no path segment and, in every case, issues no request.
C11_ApiWorkflowName ==
  (pc = "returned" /\ ret.op = "get_api_workflow_name") =>
    /\ log = <<>>
    /\ (ret.type_name \in WorkflowCasings =>
          ret.exc = "none" /\ ret.segment = "workflows")
    /\ (ret.type_name \in SparkCasings =>
          ret.exc = "none" /\ ret.segment = "spark")
    /\ (ret.type_name \notin WorkflowCasings \cup SparkCasings =>
          ret.exc = "KeyError" /\ ret.segment = NoneStr)

\* a mixed-case spelling of "workflow" resolved to the path segment
C11_Witness ==
  /\ pc = "returned" /\ ret.op = "get_api_workflow_name"
  /\ ret.type_name = <<"w","O","r","K","f","L","o","W">>
  /\ ret.exc = "none" /\ ret.segment = "workflows"


\* POST .../apps/{name}/{type}/{id}/runs/{run}/stop for the workflow and run id
IsStopOf(r, pipeline_name, workflow, run_id) ==
  /\ r.method = "POST"
  /\ r.url.path = NamespacedPath(<<"apps", pipeline_name,
                                   IF IsWorkflowType(workflow.type) THEN "workflows"
                                                                    ELSE "spark",
                                   workflow.name, "runs", run_id, "stop">>)

\* C12: stop_pipeline never short-circuits on the run id: once the last run id
\* is resolved (two requests) it fetches the pipeline info a second time, and
\* when that resolves a workflow its fourth and last request is the stop POST
\* on that workflow, whose run-id segment is "" when the execution list was
\* empty (.../runs//stop) and else the id get_last_executed_workflow_id chose,
\* that of the execution of maximum start time with the highest index; the
\* call returns only the response to that POST.
C12_StopWithoutShortCircuit ==
  (pc = "returned" /\ ret.op = "stop_pipeline") =>
    LET el == ret.execution_list
    IN /\ (ret.stage = "id" => ret.exc # "none" /\ Len(log) \in 1..2)
       /\ (ret.stage # "id" =>
             /\ Len(log) >= 3
             /\ log[1] = PipelineInfoRequest(ret.pipeline_name)
             /\ log[2].method = "GET" /\ log[2].url.path[Len(log[2].url.path)] = "runs"
             /\ log[3] = PipelineInfoRequest(ret.pipeline_name)
             /\ IF el = <<>> THEN ret.run_id = ""
                ELSE \E i \in 1..Len(el) :
                       /\ ret.run_id = el[i].runid.s
                       /\ \A j \in 1..Len(el) : el[j].starting <= el[i].starting
                       /\ \A j \in (i + 1)..Len(el) : el[j].starting < el[i].starting)
       /\ ((ret.stage # "id" /\ ret.workflow # NoneV) =>
             /\ ret.stage = "post"
             /\ Len(log) = 4
             /\ IsStopOf(log[4], ret.pipeline_name, ret.workflow, ret.run_id)
             /\ (ret.exc = "none" => ret.response \in RawResponses))
       /\ (ret.exc = "none" => ret.stage = "post")

\* a deployed pipeline that never ran was sent the stop POST on .../runs//stop
C12_Witness ==
  /\ pc = "returned" /\ ret.op = "stop_pipeline" /\ ret.exc = "none"
  /\ ret.execution_list = <<>> /\ ret.run_id = ""
  /\ Len(log) = 4 /\ log[4].method = "POST"
  /\ log[4].url.path[8] = "runs" /\ log[4].url.path[9] = "" /\ log[4].url.path[10] = "stop"


====
